---- MODULE Spec2Model ----
(***************************************************************************)
(* Model of the menstrual-cycle calculator of backend/app/services/cycle.py *)
(* and of the GET /cycle/day-info route of backend/app/api/routes/cycle.py. *)
(*                                                                          *)
(* The program keeps no state between calls.  A behaviour of the model is   *)
(* one call: from the idle state an action picks the arguments of one of    *)
(* the four entry points, evaluates it as the code does, and records the    *)
(* arguments and the outcome.                                               *)
(*                                                                          *)
(* Python values are modelled as follows.                                   *)
(*   date            [type |-> "date", year, month, day]                    *)
(*   a non-date      [type |-> "str", value]  (a string passed for a date)  *)
(*   Optional[T]     <<>> for None, <<v>> for a value v                     *)
(*   return / raise  [kind |-> "ok", value] / [kind |-> "ValueError", msg], *)
(*                   [kind |-> "Exception", msg]                            *)
(***************************************************************************)
EXTENDS Integers, Sequences, FiniteSets, TLC

VARIABLES pc, call, result, calc

vars == <<pc, call, result, calc>>

(***************************************************************************)
(* Bounds of the model.                                                     *)
(***************************************************************************)
MaxDayOffset == 72      \* target dates range over BaseDate .. BaseDate + MaxDayOffset
MaxAnchorOffset == 2    \* anchor dates of direct calls: BaseDate .. BaseDate + MaxAnchorOffset
MaxCycleLength == 37    \* cycle lengths up to this value (above MAX_CYCLE_LENGTH)
MaxPeriodLength == 37   \* period lengths up to this value
MaxCycleDay == 37       \* cycle days passed to get_cycle_phase directly
MaxK == 2               \* number of whole cycles between anchor and target (periodicity)

(***************************************************************************)
(* Program constants.                                                       *)
(***************************************************************************)
MIN_CYCLE_LENGTH == 21
MAX_CYCLE_LENGTH == 35
DEFAULT_LUTEAL_PHASE_LENGTH == 14
DEFAULT_ANCHOR_DAYS == 28
QUERY_CYCLE_LENGTH_GE == 21
QUERY_CYCLE_LENGTH_LE == 35
QUERY_PERIOD_LENGTH_GE == 1

VALID_PHASES == {"menstrual", "follicular", "ovulatory", "luteal"}

None == <<>>
Some(v) == <<v>>

Ok(v) == [kind |-> "ok", value |-> v]
Raise(k, m) == [kind |-> k, msg |-> m]

(***************************************************************************)
(* datetime.date: the proleptic Gregorian calendar.                         *)
(***************************************************************************)
Date(y, m, d) == [type |-> "date", year |-> y, month |-> m, day |-> d]

isinstance_date(x) == x.type = "date"

IsLeap(y) == y % 4 = 0 /\ (y % 100 # 0 \/ y % 400 = 0)

DaysInMonth(y, m) ==
    IF m = 2 THEN (IF IsLeap(y) THEN 29 ELSE 28)
    ELSE IF m \in {4, 6, 9, 11} THEN 30 ELSE 31

DaysBeforeYear(y) ==
    LET p == y - 1 IN p * 365 + (p \div 4) - (p \div 100) + (p \div 400)

RECURSIVE DaysBeforeMonth(_, _)
DaysBeforeMonth(y, m) ==
    IF m <= 1 THEN 0 ELSE DaysBeforeMonth(y, m - 1) + DaysInMonth(y, m - 1)

toordinal(d) == DaysBeforeYear(d.year) + DaysBeforeMonth(d.year, d.month) + d.day

fromordinal(ord) ==
    LET n0   == ord - 1
        n400 == n0 \div 146097
        r400 == n0 % 146097
        n100 == r400 \div 36524
        r100 == r400 % 36524
        n4   == r100 \div 1461
        r4   == r100 % 1461
        n1   == r4 \div 365
        n    == r4 % 365
        y    == n400 * 400 + 1 + n100 * 100 + n4 * 4 + n1
    IN  IF n1 = 4 \/ n100 = 4
        THEN Date(y - 1, 12, 31)
        ELSE LET m == CHOOSE k \in 1..12 :
                         /\ DaysBeforeMonth(y, k) <= n
                         /\ n < DaysBeforeMonth(y, k) + DaysInMonth(y, k)
             IN  Date(y, m, n - DaysBeforeMonth(y, m) + 1)

\* d1 < d2 on dates
date_lt(d1, d2) == toordinal(d1) < toordinal(d2)

\* (d1 - d2).days
days_between(d1, d2) == toordinal(d1) - toordinal(d2)

\* d - timedelta(days=n)
date_minus_days(d, n) == fromordinal(toordinal(d) - n)

(***************************************************************************)
(* date.isoformat() and the parsing of an ISO string into a date field.     *)
(***************************************************************************)
Digits == <<"0", "1", "2", "3", "4", "5", "6", "7", "8", "9">>

DigitStr(n) == Digits[n + 1]

DigitVal(c) == CHOOSE n \in 0..9 : Digits[n + 1] = c

isoformat(d) ==
    DigitStr((d.year \div 1000) % 10) \o DigitStr((d.year \div 100) % 10)
        \o DigitStr((d.year \div 10) % 10) \o DigitStr(d.year % 10)
        \o "-" \o DigitStr((d.month \div 10) % 10) \o DigitStr(d.month % 10)
        \o "-" \o DigitStr((d.day \div 10) % 10) \o DigitStr(d.day % 10)

RECURSIVE ParseInt(_)
ParseInt(s) ==
    IF Len(s) = 0 THEN 0
    ELSE ParseInt(SubSeq(s, 1, Len(s) - 1)) * 10 + DigitVal(SubSeq(s, Len(s), Len(s)))

parse_date(s) ==
    Date(ParseInt(SubSeq(s, 1, 4)), ParseInt(SubSeq(s, 6, 7)), ParseInt(SubSeq(s, 9, 10)))

(***************************************************************************)
(* services/cycle.py                                                        *)
(***************************************************************************)
PHASE_DETAILS ==
    [p \in VALID_PHASES |->
        CASE p = "menstrual" ->
               [energy    |-> "Energy levels may be lower. Focus on rest and gentle movement.",
                emotional |-> "You may experience mood swings. Practice self-compassion.",
                nutrition |-> "Iron-rich foods are important. Stay hydrated and consider warm, nourishing meals.",
                exercise  |-> "Light exercises like walking or gentle yoga are recommended."]
          [] p = "follicular" ->
               [energy    |-> "Energy levels begin to rise. Good time for new projects.",
                emotional |-> "Increased optimism and creativity. Social energy is high.",
                nutrition |-> "Focus on lean proteins and fresh vegetables to support hormonal balance.",
                exercise  |-> "Great time for high-intensity workouts and trying new activities."]
          [] p = "ovulatory" ->
               [energy    |-> "Peak energy levels. Take advantage of natural confidence.",
                emotional |-> "High communication skills and social confidence.",
                nutrition |-> "Eat light, fresh foods. Support detoxification with leafy greens.",
                exercise  |-> "Perfect for challenging workouts and endurance training."]
          [] p = "luteal" ->
               [energy    |-> "Energy gradually decreases. Listen to your body's needs.",
                emotional |-> "May experience PMS symptoms. Focus on self-care.",
                nutrition |-> "Include complex carbs and magnesium-rich foods to support mood.",
                exercise  |-> "Moderate exercise like swimming or pilates works well."]]

Min(a, b) == IF a <= b THEN a ELSE b
Max(a, b) == IF a >= b THEN a ELSE b

clamp_cycle_length(value) == Max(MIN_CYCLE_LENGTH, Min(value, MAX_CYCLE_LENGTH))

MSG_NOT_DATES == "target_date and last_period_start_date must be date objects."
MSG_CYCLE_LENGTH == "cycle_length must be a positive integer."
MSG_TARGET_BEFORE == "Target date can not be before the last period start date."
MSG_PHASE_POSITIVE ==
    "Cycle day, cycle length, period length, and luteal phase length must be positive integers."
MSG_PERIOD_LONGER == "Period length cannot be longer than cycle length."
MSG_LENGTHS == "cycle_length and period_length must be positive integers."
PREFIX_DAY_INFO == "Error calculating day info: "
PREFIX_UNEXPECTED == "An unexpected error occurred: "

\* a plausible slip: the increment applied before the modulus
get_cycle_day_increment_first(target_date, last_period_start_date, cycle_length) ==
    IF ~isinstance_date(target_date) \/ ~isinstance_date(last_period_start_date)
    THEN Raise("ValueError", MSG_NOT_DATES)
    ELSE IF cycle_length <= 0 THEN Raise("ValueError", MSG_CYCLE_LENGTH)
    ELSE IF date_lt(target_date, last_period_start_date)
    THEN Raise("ValueError", MSG_TARGET_BEFORE)
    ELSE Ok((days_between(target_date, last_period_start_date) + 1)
                % clamp_cycle_length(cycle_length))

\* a plausible slip: the modulus taken with the caller's cycle length, not the clamped one
get_cycle_day_unclamped(target_date, last_period_start_date, cycle_length) ==
    IF ~isinstance_date(target_date) \/ ~isinstance_date(last_period_start_date)
    THEN Raise("ValueError", MSG_NOT_DATES)
    ELSE IF cycle_length <= 0 THEN Raise("ValueError", MSG_CYCLE_LENGTH)
    ELSE IF date_lt(target_date, last_period_start_date)
    THEN Raise("ValueError", MSG_TARGET_BEFORE)
    ELSE Ok((days_between(target_date, last_period_start_date) % cycle_length) + 1)

get_cycle_day(target_date, last_period_start_date, cycle_length) ==
    IF ~isinstance_date(target_date) \/ ~isinstance_date(last_period_start_date)
    THEN Raise("ValueError", MSG_NOT_DATES)
    ELSE IF cycle_length <= 0 THEN Raise("ValueError", MSG_CYCLE_LENGTH)
    ELSE IF date_lt(target_date, last_period_start_date)
    THEN Raise("ValueError", MSG_TARGET_BEFORE)
    ELSE LET clamped == clamp_cycle_length(cycle_length)
             diff    == days_between(target_date, last_period_start_date)
         IN  Ok((diff % clamped) + 1)

\* a plausible slip: the period length compared with the clamped cycle length
get_cycle_phase_clamped_check(cycle_day, cycle_length, period_length, luteal_phase_length) ==
    IF cycle_day <= 0 \/ cycle_length <= 0 \/ period_length <= 0 \/ luteal_phase_length <= 0
    THEN Raise("ValueError", MSG_PHASE_POSITIVE)
    ELSE IF period_length > clamp_cycle_length(cycle_length)
    THEN Raise("ValueError", MSG_PERIOD_LONGER)
    ELSE LET clamped       == clamp_cycle_length(cycle_length)
             luteal_start  == clamped - luteal_phase_length
             ovulation_day == clamped - luteal_phase_length - 1
         IN  IF cycle_day <= period_length THEN Ok("menstrual")
             ELSE IF cycle_day >= luteal_start THEN Ok("luteal")
             ELSE IF ovulation_day <= cycle_day /\ cycle_day <= ovulation_day + 2
             THEN Ok("ovulatory")
             ELSE Ok("follicular")

\* a plausible slip: a cycle day beyond the clamped cycle length is rejected
get_cycle_phase_bounded_day(cycle_day, cycle_length, period_length, luteal_phase_length) ==
    IF cycle_day <= 0 \/ cycle_length <= 0 \/ period_length <= 0 \/ luteal_phase_length <= 0
    THEN Raise("ValueError", MSG_PHASE_POSITIVE)
    ELSE IF period_length > cycle_length
    THEN Raise("ValueError", MSG_PERIOD_LONGER)
    ELSE LET clamped       == clamp_cycle_length(cycle_length)
             luteal_start  == clamped - luteal_phase_length
             ovulation_day == clamped - luteal_phase_length - 1
         IN  IF cycle_day > clamped THEN Raise("ValueError", MSG_PHASE_POSITIVE)
             ELSE IF cycle_day <= period_length THEN Ok("menstrual")
             ELSE IF cycle_day >= luteal_start THEN Ok("luteal")
             ELSE IF ovulation_day <= cycle_day /\ cycle_day <= ovulation_day + 2
             THEN Ok("ovulatory")
             ELSE Ok("follicular")

\* a plausible slip: the ovulatory window tested before the luteal rule
get_cycle_phase_window_first(cycle_day, cycle_length, period_length, luteal_phase_length) ==
    IF cycle_day <= 0 \/ cycle_length <= 0 \/ period_length <= 0 \/ luteal_phase_length <= 0
    THEN Raise("ValueError", MSG_PHASE_POSITIVE)
    ELSE IF period_length > cycle_length
    THEN Raise("ValueError", MSG_PERIOD_LONGER)
    ELSE LET clamped       == clamp_cycle_length(cycle_length)
             luteal_start  == clamped - luteal_phase_length
             ovulation_day == clamped - luteal_phase_length - 1
         IN  IF cycle_day <= period_length THEN Ok("menstrual")
             ELSE IF ovulation_day <= cycle_day /\ cycle_day <= ovulation_day + 2
             THEN Ok("ovulatory")
             ELSE IF cycle_day >= luteal_start THEN Ok("luteal")
             ELSE Ok("follicular")

get_cycle_phase(cycle_day, cycle_length, period_length, luteal_phase_length) ==
    IF cycle_day <= 0 \/ cycle_length <= 0 \/ period_length <= 0 \/ luteal_phase_length <= 0
    THEN Raise("ValueError", MSG_PHASE_POSITIVE)
    ELSE IF period_length > cycle_length
    THEN Raise("ValueError", MSG_PERIOD_LONGER)
    ELSE LET clamped       == clamp_cycle_length(cycle_length)
             luteal_start  == clamped - luteal_phase_length
             ovulation_day == clamped - luteal_phase_length - 1
         IN  IF cycle_day <= period_length THEN Ok("menstrual")
             ELSE IF cycle_day >= luteal_start THEN Ok("luteal")
             ELSE IF ovulation_day <= cycle_day /\ cycle_day <= ovulation_day + 2
             THEN Ok("ovulatory")
             ELSE Ok("follicular")

get_phase_details(phase) ==
    IF phase \notin VALID_PHASES THEN PHASE_DETAILS["follicular"] ELSE PHASE_DETAILS[phase]

\* DayInfo(date=..., cycleDay=..., phase=...): the date field is given as an ISO string and
\* parsed into a date; details defaults to None
DayInfo(date_str, cycleDay, phase) ==
    [date |-> parse_date(date_str), cycleDay |-> cycleDay, phase |-> phase, details |-> None]

\* the except clauses of get_day_info
wrap_day_info_error(outcome) ==
    IF outcome.kind = "ValueError" THEN Raise("ValueError", PREFIX_DAY_INFO \o outcome.msg)
    ELSE Raise("Exception", PREFIX_UNEXPECTED \o outcome.msg)

\* the try block of get_day_info
day_info_body(target_date, last_period_start_date, cycle_length, period_length, include_details) ==
    LET cd == get_cycle_day(target_date, last_period_start_date, cycle_length)
    IN  IF cd.kind # "ok" THEN cd
        ELSE LET ph == get_cycle_phase(cd.value, cycle_length, period_length,
                                       DEFAULT_LUTEAL_PHASE_LENGTH)
             IN  IF ph.kind # "ok" THEN ph
                 ELSE LET day_info == DayInfo(isoformat(target_date), cd.value, ph.value)
                      IN  IF include_details
                          THEN Ok([day_info EXCEPT
                                      !.details = Some(get_phase_details(ph.value))])
                          ELSE Ok(day_info)

\* a plausible slip: the argument checks placed inside the try block
get_day_info_checks_in_try(target_date, last_period_start_date, cycle_length, period_length, include_details) ==
    LET body == day_info_body(target_date, last_period_start_date, cycle_length,
                              period_length, include_details)
        checked ==
            IF ~isinstance_date(target_date) \/ ~isinstance_date(last_period_start_date)
            THEN Raise("ValueError", MSG_NOT_DATES)
            ELSE IF cycle_length <= 0 \/ period_length <= 0
            THEN Raise("ValueError", MSG_LENGTHS)
            ELSE IF date_lt(target_date, last_period_start_date)
            THEN Raise("ValueError", MSG_TARGET_BEFORE)
            ELSE body
    IN  IF checked.kind = "ok" THEN checked ELSE wrap_day_info_error(checked)

\* a plausible slip: cycle_length and period_length passed to get_cycle_phase in the wrong order
get_day_info_swapped(target_date, last_period_start_date, cycle_length, period_length, include_details) ==
    IF ~isinstance_date(target_date) \/ ~isinstance_date(last_period_start_date)
    THEN Raise("ValueError", MSG_NOT_DATES)
    ELSE IF cycle_length <= 0 \/ period_length <= 0
    THEN Raise("ValueError", MSG_LENGTHS)
    ELSE IF date_lt(target_date, last_period_start_date)
    THEN Raise("ValueError", MSG_TARGET_BEFORE)
    ELSE LET body == day_info_body(target_date, last_period_start_date, period_length,
                                   cycle_length, include_details)
         IN  IF body.kind = "ok" THEN body ELSE wrap_day_info_error(body)

get_day_info(target_date, last_period_start_date, cycle_length, period_length, include_details) ==
    IF ~isinstance_date(target_date) \/ ~isinstance_date(last_period_start_date)
    THEN Raise("ValueError", MSG_NOT_DATES)
    ELSE IF cycle_length <= 0 \/ period_length <= 0
    THEN Raise("ValueError", MSG_LENGTHS)
    ELSE IF date_lt(target_date, last_period_start_date)
    THEN Raise("ValueError", MSG_TARGET_BEFORE)
    ELSE LET body == day_info_body(target_date, last_period_start_date, cycle_length,
                                   period_length, include_details)
         IN  IF body.kind = "ok" THEN body ELSE wrap_day_info_error(body)

(***************************************************************************)
(* api/routes/cycle.py                                                      *)
(***************************************************************************)
MSG_FUTURE == "The last period start date cannot be in the future."
MSG_INTERNAL == "An internal server error occurred."

\* Query(28, ge=21, le=35) and Query(5, ge=1): a request that fails them is answered 422
\* and the handler does not run
query_params_valid(cycle_length, period_length) ==
    /\ QUERY_CYCLE_LENGTH_GE <= cycle_length
    /\ cycle_length <= QUERY_CYCLE_LENGTH_LE
    /\ QUERY_PERIOD_LENGTH_GE <= period_length

\* target = query_date or current_utc_datetime.date()
resolve_target(query_date, today) == IF query_date # None THEN query_date[1] ELSE today

\* anchor = last_period_start_date or (current_utc_datetime.date() - timedelta(days=28))
resolve_anchor(last_period_start_date, today) ==
    IF last_period_start_date # None THEN last_period_start_date[1]
    ELSE date_minus_days(today, DEFAULT_ANCHOR_DAYS)

\* a plausible slip: the operands of the comparison exchanged
last_period_in_future_reversed(last_period_start_date, target) ==
    /\ last_period_start_date # None
    /\ date_lt(last_period_start_date[1], target)

\* if last_period_start_date and last_period_start_date > target
last_period_in_future(last_period_start_date, target) ==
    /\ last_period_start_date # None
    /\ date_lt(target, last_period_start_date[1])

\* The call of get_day_info made by the handler.  `unexpected` is None, or Some(text) when
\* an exception that is not a ValueError is raised in the try block of get_day_info after
\* the day info has been built; the except clauses of get_day_info then wrap it.
invoke_calculator(target, anchor, cycle_length, period_length, include_details, unexpected) ==
    LET outcome == get_day_info(target, anchor, cycle_length, period_length, include_details)
    IN  IF unexpected # None /\ outcome.kind = "ok"
        THEN wrap_day_info_error(Raise("Exception", unexpected[1]))
        ELSE outcome

\* response_model=DayInfo: the JSON body of a returned DayInfo
day_info_json(day_info) ==
    [date |-> isoformat(day_info.date), cycleDay |-> day_info.cycleDay,
     phase |-> day_info.phase, details |-> day_info.details]

\* a plausible slip: `except Exception` placed first, so that it also catches ValueError
handle_outcome_exception_first(outcome) ==
    IF outcome.kind = "ok" THEN [status |-> 200, body |-> day_info_json(outcome.value)]
    ELSE [status |-> 500, detail |-> MSG_INTERNAL]

\* the try/except around the call of get_day_info
handle_outcome(outcome) ==
    IF outcome.kind = "ok" THEN [status |-> 200, body |-> day_info_json(outcome.value)]
    ELSE IF outcome.kind = "ValueError" THEN [status |-> 400, detail |-> outcome.msg]
    ELSE [status |-> 500, detail |-> MSG_INTERNAL]

\* The whole request: parameter validation, then the handler.  The value is the response
\* and the list of calls of get_day_info the handler made, each with its outcome.
day_info_api(query_date, last_period_start_date, cycle_length, period_length, include_details, today, unexpected) ==
    IF ~query_params_valid(cycle_length, period_length)
    THEN [response |-> [status |-> 422], calls |-> <<>>]
    ELSE LET target == resolve_target(query_date, today)
             anchor == resolve_anchor(last_period_start_date, today)
         IN  IF last_period_in_future(last_period_start_date, target)
             THEN [response |-> [status |-> 400, detail |-> MSG_FUTURE], calls |-> <<>>]
             ELSE LET outcome == invoke_calculator(target, anchor, cycle_length,
                                                   period_length, include_details, unexpected)
                  IN  [response |-> handle_outcome(outcome),
                       calls |-> <<[target_date |-> target,
                                    last_period_start_date |-> anchor,
                                    cycle_length |-> cycle_length,
                                    period_length |-> period_length,
                                    include_details |-> include_details,
                                    outcome |-> outcome]>>]

(***************************************************************************)
(* The inputs of the model.                                                 *)
(***************************************************************************)
BaseDate == Date(2024, 2, 11)

DateAt(i) == fromordinal(toordinal(BaseDate) + i)

NonDate == [type |-> "str", value |-> "2024-03-10"]

TargetDates == {DateAt(i) : i \in 0..MaxDayOffset}
AnchorDates == {DateAt(i) : i \in 0..MaxAnchorOffset}

\* cycle lengths around the limits of the clamp, and the default
CycleLengthSample == {0, 1, 20, 21, 22, 28, 34, 35, 36, MaxCycleLength}
PeriodLengthSample == {0, 1, 5, 13, 14, 22, 36}
LutealLengthSample == {0, 1, 13, 14, 21, 35}

\* request parameters: dates two weeks apart, lengths on both sides of the Query limits
RequestDates == {DateAt(i) : i \in {0, 14, 28, 42, 56, 70}}
RequestCycleLengths == {20, 21, 28, 35, 36}
RequestPeriodLengths == {0, 1, 5, 22, 36}
Optional(S) == {None} \cup {Some(v) : v \in S}
UnexpectedErrors == {"out of memory"}

(***************************************************************************)
(* The state machine: one call per behaviour.                               *)
(***************************************************************************)
Init ==
    /\ pc = "idle"
    /\ call = [op |-> "none"]
    /\ result = [kind |-> "pending"]
    /\ calc = <<>>

Call_get_cycle_day ==
    /\ pc = "idle"
    /\ \E t \in TargetDates \cup {NonDate}, a \in AnchorDates \cup {NonDate},
          cl \in (-1)..MaxCycleLength :
          /\ call' = [op |-> "get_cycle_day", target_date |-> t,
                      last_period_start_date |-> a, cycle_length |-> cl]
          /\ result' = get_cycle_day(t, a, cl)
    /\ pc' = "returned"
    /\ UNCHANGED calc

Call_get_cycle_phase ==
    /\ pc = "idle"
    /\ \E cd \in 0..MaxCycleDay, cl \in CycleLengthSample, pl \in 0..MaxPeriodLength,
          lut \in LutealLengthSample :
          /\ call' = [op |-> "get_cycle_phase", cycle_day |-> cd, cycle_length |-> cl,
                      period_length |-> pl, luteal_phase_length |-> lut]
          /\ result' = get_cycle_phase(cd, cl, pl, lut)
    /\ pc' = "returned"
    /\ UNCHANGED calc

Call_get_day_info ==
    /\ pc = "idle"
    /\ \E t \in TargetDates \cup {NonDate}, a \in AnchorDates \cup {NonDate},
          cl \in CycleLengthSample, pl \in PeriodLengthSample, inc \in BOOLEAN :
          /\ call' = [op |-> "get_day_info", target_date |-> t,
                      last_period_start_date |-> a, cycle_length |-> cl,
                      period_length |-> pl, include_details |-> inc]
          /\ result' = get_day_info(t, a, cl, pl, inc)
    /\ pc' = "returned"
    /\ UNCHANGED calc

Request_day_info ==
    /\ pc = "idle"
    /\ \E today \in RequestDates, qd \in Optional(RequestDates),
          lp \in Optional(RequestDates), un \in Optional(UnexpectedErrors),
          inc \in BOOLEAN, cl \in RequestCycleLengths, pl \in RequestPeriodLengths :
          LET r == day_info_api(qd, lp, cl, pl, inc, today, un)
          IN  /\ call' = [op |-> "day_info_api", query_date |-> qd,
                          last_period_start_date |-> lp, cycle_length |-> cl,
                          period_length |-> pl, include_details |-> inc,
                          today |-> today, unexpected |-> un]
              /\ result' = r.response
              /\ calc' = r.calls
    /\ pc' = "returned"

Next ==
    \/ Call_get_cycle_day
    \/ Call_get_cycle_phase
    \/ Call_get_day_info
    \/ Request_day_info

Spec == Init /\ [][Next]_vars

(***************************************************************************)
(* The claims.                                                              *)
(***************************************************************************)
Returned(op) == pc = "returned" /\ call.op = op

HasPrefix(msg, prefix) ==
    Len(msg) >= Len(prefix) /\ SubSeq(msg, 1, Len(prefix)) = prefix

DatesOrdered ==
    /\ isinstance_date(call.target_date)
    /\ isinstance_date(call.last_period_start_date)
    /\ ~date_lt(call.target_date, call.last_period_start_date)

\* C1: for anchor <= target and any positive cycle length (also outside [21,35]),
\* get_cycle_day returns ((target - anchor) mod clamped) + 1, which lies in [1, clamped],
\* and in [1, cycle_length] when cycle_length is in [21,35].
C1_CycleDayInRange ==
    (Returned("get_cycle_day") /\ DatesOrdered /\ call.cycle_length > 0) =>
        LET clamped == clamp_cycle_length(call.cycle_length)
            diff    == toordinal(call.target_date) - toordinal(call.last_period_start_date)
        IN  /\ result.kind = "ok"
            /\ result.value = (diff % clamped) + 1
            /\ 1 <= result.value /\ result.value <= clamped
            /\ (call.cycle_length \in MIN_CYCLE_LENGTH..MAX_CYCLE_LENGTH =>
                    result.value <= call.cycle_length)

\* a cycle length above 35 is clamped and the last day of the clamped cycle is returned
C1_Witness ==
    /\ Returned("get_cycle_day") /\ DatesOrdered
    /\ call.cycle_length > MAX_CYCLE_LENGTH
    /\ result.kind = "ok" /\ result.value = MAX_CYCLE_LENGTH

\* C2: periodicity: when the target is k whole clamped cycles after the anchor, k >= 0
\* (k = 0: target equals anchor), get_cycle_day returns 1.
C2_Periodicity ==
    (Returned("get_cycle_day") /\ DatesOrdered /\ call.cycle_length > 0) =>
        \A k \in 0..MaxK :
            (toordinal(call.target_date) - toordinal(call.last_period_start_date)
                 = k * clamp_cycle_length(call.cycle_length))
                => result = Ok(1)

\* two whole cycles of a clamped cycle length
C2_Witness ==
    /\ Returned("get_cycle_day") /\ DatesOrdered
    /\ call.cycle_length > MAX_CYCLE_LENGTH
    /\ toordinal(call.target_date) - toordinal(call.last_period_start_date)
           = 2 * MAX_CYCLE_LENGTH
    /\ result = Ok(1)

DayInfoViolation ==
    \/ ~isinstance_date(call.target_date)
    \/ ~isinstance_date(call.last_period_start_date)
    \/ call.cycle_length <= 0
    \/ call.period_length <= 0
    \/ date_lt(call.target_date, call.last_period_start_date)

\* C3: get_day_info with dates, target >= anchor, positive lengths and
\* period_length <= cycle_length does not fail; the DayInfo has the target date, the cycle
\* day of get_cycle_day, the phase of get_cycle_phase with luteal length 14, and the phase
\* details exactly when include_details is true.
C3_DayInfoComposition ==
    (Returned("get_day_info") /\ ~DayInfoViolation
        /\ call.period_length <= call.cycle_length) =>
        /\ result.kind = "ok"
        /\ result.value.date = call.target_date
        /\ Ok(result.value.cycleDay)
               = get_cycle_day(call.target_date, call.last_period_start_date,
                               call.cycle_length)
        /\ Ok(result.value.phase)
               = get_cycle_phase(result.value.cycleDay, call.cycle_length,
                                 call.period_length, 14)
        /\ result.value.details
               = IF call.include_details
                 THEN Some(get_phase_details(result.value.phase))
                 ELSE None

\* details requested, a cycle length outside [21,35], the ovulatory day
C3_Witness ==
    /\ Returned("get_day_info") /\ ~DayInfoViolation
    /\ call.include_details
    /\ call.cycle_length \notin MIN_CYCLE_LENGTH..MAX_CYCLE_LENGTH
    /\ result.kind = "ok"
    /\ result.value.phase = "ovulatory"
    /\ result.value.details = Some(PHASE_DETAILS["ovulatory"])

\* C4 as stated: every precondition violation detected by get_day_info fails with a
\* ValueError whose message starts with "Error calculating day info: ".
C4_AllViolationsPrefixed ==
    (Returned("get_day_info") /\ DayInfoViolation) =>
        /\ result.kind = "ValueError"
        /\ HasPrefix(result.msg, PREFIX_DAY_INFO)

\* C4 amended: a violation found by get_day_info's own checks fails with a ValueError that
\* carries the bare message of the check, without the prefix; the prefix is carried only by
\* the errors raised inside get_cycle_day and get_cycle_phase (period longer than cycle).
C4_PrefixOnlyOnWrappedErrors ==
    Returned("get_day_info") =>
        /\ DayInfoViolation =>
              /\ result.kind = "ValueError"
              /\ result.msg =
                    IF ~isinstance_date(call.target_date)
                           \/ ~isinstance_date(call.last_period_start_date)
                    THEN MSG_NOT_DATES
                    ELSE IF call.cycle_length <= 0 \/ call.period_length <= 0
                    THEN MSG_LENGTHS
                    ELSE MSG_TARGET_BEFORE
              /\ ~HasPrefix(result.msg, PREFIX_DAY_INFO)
        /\ (~DayInfoViolation /\ call.period_length > call.cycle_length) =>
              result = Raise("ValueError", PREFIX_DAY_INFO \o MSG_PERIOD_LONGER)

\* a target before the anchor, rejected by get_day_info itself
C4_Witness ==
    /\ Returned("get_day_info")
    /\ isinstance_date(call.target_date) /\ isinstance_date(call.last_period_start_date)
    /\ call.cycle_length > 0 /\ call.period_length > 0
    /\ date_lt(call.target_date, call.last_period_start_date)
    /\ result = Raise("ValueError", MSG_TARGET_BEFORE)

RequestValid ==
    /\ Returned("day_info_api")
    /\ query_params_valid(call.cycle_length, call.period_length)

\* C5 as stated: a request that passes parameter validation and omits
\* last_period_start_date is answered 200 with date, cycleDay and phase, whatever the
\* current UTC date is.
C5_DefaultAnchorAlwaysOk ==
    (RequestValid /\ call.last_period_start_date = None /\ call.unexpected = None) =>
        /\ result.status = 200
        /\ {"date", "cycleDay", "phase"} \subseteq DOMAIN result.body

\* C6: a valid request whose last_period_start_date is strictly after the resolved target
\* (query_date if given, else today) is answered 400 with the fixed detail, and
\* get_day_info is not invoked.
C6_FutureAnchorRejected ==
    (RequestValid /\ call.last_period_start_date # None
        /\ date_lt(IF call.query_date # None THEN call.query_date[1] ELSE call.today,
                   call.last_period_start_date[1])) =>
        /\ result = [status |-> 400,
                     detail |-> "The last period start date cannot be in the future."]
        /\ calc = <<>>

\* the supplied date is after query_date but not after today
C6_Witness ==
    /\ RequestValid
    /\ call.query_date # None /\ call.last_period_start_date # None
    /\ date_lt(call.query_date[1], call.last_period_start_date[1])
    /\ date_lt(call.last_period_start_date[1], call.today)
    /\ result.status = 400
    /\ calc = <<>>

\* C7: when the handler invokes get_day_info, a ValueError gives 400 with the error's message
\* as detail, any other failure gives 500 with the fixed detail, and the response is 200
\* only when get_day_info returned a DayInfo.
C7_ErrorMapping ==
    Returned("day_info_api") =>
        /\ calc # <<>> =>
              LET outcome == calc[1].outcome
              IN  /\ outcome.kind = "ValueError" =>
                        result = [status |-> 400, detail |-> outcome.msg]
                  /\ outcome.kind \notin {"ok", "ValueError"} =>
                        result = [status |-> 500,
                                  detail |-> "An internal server error occurred."]
        /\ result.status = 200 => (calc # <<>> /\ calc[1].outcome.kind = "ok")

\* the calculator rejects a period longer than the cycle; the handler answers 400
C7_Witness ==
    /\ Returned("day_info_api")
    /\ calc # <<>>
    /\ calc[1].outcome = Raise("ValueError", PREFIX_DAY_INFO \o MSG_PERIOD_LONGER)
    /\ result = [status |-> 400, detail |-> PREFIX_DAY_INFO \o MSG_PERIOD_LONGER]

PhaseArgsPositive ==
    /\ call.cycle_day > 0 /\ call.cycle_length > 0
    /\ call.period_length > 0 /\ call.luteal_phase_length > 0

\* C8: get_cycle_phase with positive arguments fails with a ValueError whenever
\* period_length > cycle_length, the cycle length being the caller's, not the clamped one.
C8_PeriodLongerThanCycle ==
    (Returned("get_cycle_phase") /\ PhaseArgsPositive
        /\ call.period_length > call.cycle_length) =>
        result = Raise("ValueError", "Period length cannot be longer than cycle length.")

\* a period longer than the cycle but not longer than the clamped cycle
C8_Witness ==
    /\ Returned("get_cycle_phase") /\ PhaseArgsPositive
    /\ call.period_length > call.cycle_length
    /\ call.period_length <= clamp_cycle_length(call.cycle_length)
    /\ result.kind = "ValueError"

\* C9: get_cycle_phase with positive arguments and period_length <= cycle_length returns
\* one of the four phases and does not fail, whatever cycle_day and luteal_phase_length.
C9_PhaseTotal ==
    (Returned("get_cycle_phase") /\ PhaseArgsPositive
        /\ call.period_length <= call.cycle_length) =>
        /\ result.kind = "ok"
        /\ result.value \in {"menstrual", "follicular", "ovulatory", "luteal"}

\* a cycle day beyond the clamped cycle and a luteal length not below it
C9_Witness ==
    /\ Returned("get_cycle_phase") /\ PhaseArgsPositive
    /\ call.period_length <= call.cycle_length
    /\ call.cycle_day > clamp_cycle_length(call.cycle_length)
    /\ call.luteal_phase_length >= clamp_cycle_length(call.cycle_length)
    /\ result.kind = "ok"

PhaseRank(phase) ==
    CASE phase = "menstrual" -> 1
      [] phase = "follicular" -> 2
      [] phase = "ovulatory" -> 3
      [] phase = "luteal" -> 4

\* C10: the luteal rule comes before the ovulatory window, so the only ovulatory day is
\* clamped - luteal_phase_length - 1, and only when it is after the period; the other two
\* days of the window are luteal (or menstrual); from day 1 to clamped the phases appear
\* in the order menstrual, follicular, ovulatory, luteal.
C10_SingleOvulatoryDay ==
    (Returned("get_cycle_phase") /\ PhaseArgsPositive
        /\ call.period_length <= call.cycle_length) =>
        LET clamped       == clamp_cycle_length(call.cycle_length)
            ovulation_day == clamped - call.luteal_phase_length - 1
        IN  /\ result.kind = "ok"
            /\ result.value = "ovulatory" <=>
                  (call.cycle_day = ovulation_day /\ call.cycle_day > call.period_length)
            /\ call.cycle_day \in {ovulation_day + 1, ovulation_day + 2} =>
                  result.value \in {"luteal", "menstrual"}
            /\ \A later \in call.cycle_day..clamped :
                  PhaseRank(get_cycle_phase(later, call.cycle_length, call.period_length,
                                            call.luteal_phase_length).value)
                      >= PhaseRank(result.value)

\* the single ovulatory day of a default cycle
C10_Witness ==
    /\ Returned("get_cycle_phase") /\ PhaseArgsPositive
    /\ call.luteal_phase_length = 14
    /\ call.cycle_day = clamp_cycle_length(call.cycle_length) - 15
    /\ result = Ok("ovulatory")

====
